---- MODULE Spec2Model ----
(***************************************************************************)
(* A model of script.py, the PHP job-link scraper: the page fetcher, the   *)
(* link extractor (find_php_links_on_html) and the Tkinter application's   *)
(* scrape worker threads (JobsApp.scrape_and_display).                     *)
(*                                                                         *)
(* Python strings are modelled as sequences of one-character strings, so   *)
(* that lower(), strip(), substring search, html.unescape, urlparse and    *)
(* urljoin are computed character by character as the libraries do.        *)
(***************************************************************************)
EXTENDS Integers, Sequences, FiniteSets, TLC

(***************************************************************************)
(* Strings                                                                 *)
(***************************************************************************)
UpperChars == <<"A","B","C","D","E","F","G","H","I","J","K","L","M",
                "N","O","P","Q","R","S","T","U","V","W","X","Y","Z">>

LowerChars == <<"a","b","c","d","e","f","g","h","i","j","k","l","m",
                "n","o","p","q","r","s","t","u","v","w","x","y","z">>

DigitChars == <<"0","1","2","3","4","5","6","7","8","9">>

Range(f) == { f[i] : i \in DOMAIN f }

Min(a, b) == IF a <= b THEN a ELSE b

\* str.lower() on one character
LowerChar(c) ==
    IF c \in Range(UpperChars)
    THEN LowerChars[CHOOSE i \in 1..26 : UpperChars[i] = c]
    ELSE c

\* str.lower()
Lower(s) == [i \in 1..Len(s) |-> LowerChar(s[i])]

\* s[i:i+len(pat)] == pat   (i is 1-based)
MatchAt(s, i, pat) ==
    /\ i >= 1
    /\ i + Len(pat) - 1 <= Len(s)
    /\ SubSeq(s, i, i + Len(pat) - 1) = pat

\* pat in s
Contains(s, pat) == \E i \in 1..(Len(s) + 1) : MatchAt(s, i, pat)

\* s.find(c) for a character c, 1-based; 0 when absent
Find(s, c) ==
    IF \E i \in 1..Len(s) : s[i] = c
    THEN CHOOSE i \in 1..Len(s) : s[i] = c /\ \A j \in 1..(i - 1) : s[j] # c
    ELSE 0

\* the first position of s holding a character of cs, or Len(s)+1
FindAny(s, cs) ==
    IF \E i \in 1..Len(s) : s[i] \in cs
    THEN CHOOSE i \in 1..Len(s) : s[i] \in cs /\ \A j \in 1..(i - 1) : s[j] \notin cs
    ELSE Len(s) + 1

Whitespace == {" "}

\* str.strip()
Strip(s) ==
    IF \A i \in 1..Len(s) : s[i] \in Whitespace
    THEN <<>>
    ELSE LET lo == CHOOSE i \in 1..Len(s) :
                     s[i] \notin Whitespace /\ \A j \in 1..(i - 1) : s[j] \in Whitespace
             hi == CHOOSE i \in 1..Len(s) :
                     s[i] \notin Whitespace /\ \A j \in (i + 1)..Len(s) : s[j] \in Whitespace
         IN SubSeq(s, lo, hi)

RECURSIVE JoinRange(_, _, _, _)
\* sep.join(parts[lo..hi]), for lo <= hi
JoinRange(parts, sep, lo, hi) ==
    IF lo = hi THEN parts[lo]
    ELSE JoinRange(parts, sep, lo, (lo + hi) \div 2) \o sep
           \o JoinRange(parts, sep, ((lo + hi) \div 2) + 1, hi)

\* sep.join(parts)
Join(parts, sep) == IF parts = <<>> THEN <<>> ELSE JoinRange(parts, sep, 1, Len(parts))

RECURSIVE Split(_, _)
\* s.split(c) for a character c
Split(s, c) ==
    LET i == Find(s, c)
    IN IF i = 0 THEN <<s>>
       ELSE <<SubSeq(s, 1, i - 1)>> \o Split(SubSeq(s, i + 1, Len(s)), c)

(***************************************************************************)
(* html.unescape (script.py line 70)                                       *)
(***************************************************************************)
\* the named character references that can occur over the alphabet of the
\* model's page texts: <<name, replacement>>; all three are also recognised
\* without their closing semicolon
HtmlEntities == { << <<"a","m","p">>, "&" >>,
                  << <<"l","t">>, "<" >>,
                  << <<"g","t">>, ">" >> }

RECURSIVE Unescape(_)
\* html.unescape(s): every "&name" with an optional ";" becomes its character
Unescape(s) ==
    IF s = <<>> THEN <<>>
    ELSE IF s[1] = "&" /\ \E e \in HtmlEntities : MatchAt(s, 2, e[1])
    THEN LET e == CHOOSE e \in HtmlEntities : MatchAt(s, 2, e[1])
             n == 1 + Len(e[1])
             m == IF n < Len(s) /\ s[n + 1] = ";" THEN n + 1 ELSE n
         IN <<e[2]>> \o Unescape(SubSeq(s, m + 1, Len(s)))
    ELSE <<s[1]>> \o Unescape(Tail(s))

(***************************************************************************)
(* urllib.parse: urlparse (line 197) and urljoin (lines 69, 78), for URLs  *)
(* without ";params" and without leading whitespace                        *)
(***************************************************************************)
\* what a call returns when it raises ValueError; no string equals it
ValueError == <<"ValueError">>

Letters == Range(LowerChars) \cup Range(UpperChars)

SchemeChars == Letters \cup Range(DigitChars) \cup {"+", "-", "."}

\* the schemes of urllib's uses_relative and uses_netloc that matter here
UsesRelative == { <<>>, <<"h","t","t","p">>, <<"h","t","t","p","s">>,
                  <<"f","t","p">>, <<"f","i","l","e">> }

UsesNetloc == UsesRelative

\* position of the colon that ends the scheme of url, 0 when url has none
SchemeEnd(url) ==
    LET i == Find(url, ":")
    IN IF /\ i > 1
          /\ url[1] \in Letters
          /\ \A j \in 1..(i - 1) : url[j] \in SchemeChars
       THEN i ELSE 0

\* s up to the first c, all of s when it holds none
BeforeChar(s, c) == IF Find(s, c) > 0 THEN SubSeq(s, 1, Find(s, c) - 1) ELSE s

\* s after the first c, empty when it holds none
AfterChar(s, c) == IF Find(s, c) > 0 THEN SubSeq(s, Find(s, c) + 1, Len(s)) ELSE <<>>

\* urlsplit, last step: the query is split off what precedes the fragment;
\* raised when urlsplit raises ValueError ("Invalid IPv6 URL": the netloc
\* holds one bracket of a pair)
SplitQuery(scheme, netloc, rest, fragment) ==
    [raised |-> ("[" \in Range(netloc)) # ("]" \in Range(netloc)),
     scheme |-> scheme, netloc |-> netloc,
     path |-> BeforeChar(rest, "?"), query |-> AfterChar(rest, "?"),
     fragment |-> fragment]

\* urlsplit, once the netloc is split off: the fragment is split off
SplitFragment(scheme, netloc, rest) ==
    SplitQuery(scheme, netloc, BeforeChar(rest, "#"), AfterChar(rest, "#"))

\* _splitnetloc(url, 2) on what follows the "//"
SplitNetloc(scheme, a) ==
    SplitFragment(scheme,
                  SubSeq(a, 1, FindAny(a, {"/", "?", "#"}) - 1),
                  SubSeq(a, FindAny(a, {"/", "?", "#"}), Len(a)))

\* urlsplit, once the scheme is split off
SplitRest(scheme, rest) ==
    IF MatchAt(rest, 1, <<"/", "/">>)
    THEN SplitNetloc(scheme, SubSeq(rest, 3, Len(rest)))
    ELSE SplitFragment(scheme, <<>>, rest)

\* urlsplit(url, scheme=default): the parts of url
UrlSplit(url, default) ==
    IF SchemeEnd(url) > 0
    THEN SplitRest(Lower(SubSeq(url, 1, SchemeEnd(url) - 1)),
                   SubSeq(url, SchemeEnd(url) + 1, Len(url)))
    ELSE SplitRest(default, url)

\* urlunsplit(parts)
UrlUnsplit(p) ==
    LET u1 == IF \/ p.netloc # <<>>
                 \/ (p.scheme # <<>> /\ p.scheme \in UsesNetloc
                       /\ ~MatchAt(p.path, 1, <<"/", "/">>))
              THEN <<"/", "/">> \o p.netloc
                     \o (IF p.path # <<>> /\ p.path[1] # "/" THEN <<"/">> ELSE <<>>)
                     \o p.path
              ELSE p.path
        u2 == IF p.scheme # <<>> THEN p.scheme \o <<":">> \o u1 ELSE u1
        u3 == IF p.query # <<>> THEN u2 \o <<"?">> \o p.query ELSE u2
    IN IF p.fragment # <<>> THEN u3 \o <<"#">> \o p.fragment ELSE u3

RECURSIVE ResolveDots(_, _)
\* the resolved_path loop of urljoin: ".." pops, "." is skipped
ResolveDots(segments, acc) ==
    IF segments = <<>> THEN acc
    ELSE LET seg == Head(segments)
         IN IF seg = <<".", ".">>
            THEN ResolveDots(Tail(segments),
                             IF acc = <<>> THEN acc ELSE SubSeq(acc, 1, Len(acc) - 1))
            ELSE IF seg = <<".">>
            THEN ResolveDots(Tail(segments), acc)
            ELSE ResolveDots(Tail(segments), Append(acc, seg))

\* segments[1:-1] = filter(None, segments[1:-1])
FilterInner(segments) ==
    IF Len(segments) <= 2 THEN segments
    ELSE <<segments[1]>>
           \o SelectSeq(SubSeq(segments, 2, Len(segments) - 1), LAMBDA x : x # <<>>)
           \o <<segments[Len(segments)]>>

\* base_parts of urljoin: the base path's segments without the last one
BaseParts(bpath) ==
    LET bp0 == Split(bpath, "/")
    IN IF bp0[Len(bp0)] # <<>> THEN SubSeq(bp0, 1, Len(bp0) - 1) ELSE bp0

\* segments of urljoin, for a non-empty path
Segments(bpath, path) ==
    IF path[1] = "/" THEN Split(path, "/")
    ELSE FilterInner(BaseParts(bpath) \o Split(path, "/"))

\* the path urljoin gives the result, from the segments
ResolvedPath(segments) ==
    LET resolved0 == ResolveDots(segments, <<>>)
        joined == Join(IF segments[Len(segments)] \in {<<".">>, <<".", ".">>}
                       THEN Append(resolved0, <<>>)
                       ELSE resolved0,
                       <<"/">>)
    IN IF joined = <<>> THEN <<"/">> ELSE joined

\* urljoin once both URLs are split: b the base, u the reference url
JoinParts(b, u, url) ==
    IF u.scheme # b.scheme \/ u.scheme \notin UsesRelative THEN url
    ELSE IF u.scheme \in UsesNetloc /\ u.netloc # <<>> THEN UrlUnsplit(u)
    ELSE IF u.path = <<>>
    THEN UrlUnsplit([u EXCEPT !.netloc = IF u.scheme \in UsesNetloc THEN b.netloc ELSE @,
                              !.path = b.path,
                              !.query = IF @ = <<>> THEN b.query ELSE @])
    ELSE UrlUnsplit([u EXCEPT !.netloc = IF u.scheme \in UsesNetloc THEN b.netloc ELSE @,
                              !.path = ResolvedPath(Segments(b.path, @))])

\* urljoin with the base split
JoinBase(b, url) ==
    IF b.raised THEN ValueError
    ELSE IF UrlSplit(url, b.scheme).raised THEN ValueError
    ELSE JoinParts(b, UrlSplit(url, b.scheme), url)

\* urljoin(base, url): the joined URL, or ValueError
UrlJoin(base, url) ==
    IF base = <<>> THEN url
    ELSE IF url = <<>> THEN base
    ELSE JoinBase(UrlSplit(base, <<>>), url)

(***************************************************************************)
(* Parsed HTML (BeautifulSoup(html_text, "html.parser"), line 61)          *)
(*                                                                         *)
(* A page is the sequence of the children of the parser's root object.     *)
(* A node is a text node, an <a> element or another element (a "div")      *)
(* holding text nodes and <a> elements.  html.parser adds no <html> or     *)
(* <body>: the parent of a top-level <a> is the root object itself.        *)
(***************************************************************************)
\* the value of a["href"] for an <a> without the attribute
NoHref == <<"None">>

Text(s) == [tag |-> "text", s |-> s, href |-> NoHref, strings |-> <<>>, children |-> <<>>]

A(href, strings) ==
    [tag |-> "a", s |-> <<>>, href |-> href, strings |-> strings, children |-> <<>>]

Div(children) ==
    [tag |-> "div", s |-> <<>>, href |-> NoHref, strings |-> <<>>, children |-> children]

RECURSIVE FlattenRange(_, _, _)
\* the concatenation of seqs[lo..hi], for lo <= hi
FlattenRange(seqs, lo, hi) ==
    IF lo = hi THEN seqs[lo]
    ELSE FlattenRange(seqs, lo, (lo + hi) \div 2)
           \o FlattenRange(seqs, ((lo + hi) \div 2) + 1, hi)

\* the concatenation of the sequences of seqs
Flatten(seqs) == IF seqs = <<>> THEN <<>> ELSE FlattenRange(seqs, 1, Len(seqs))

\* the text nodes below a leaf node (a text node or an <a>), in document order
LeafStrings(n) == IF n.tag = "text" THEN <<n.s>> ELSE n.strings

\* the text nodes below a node, in document order
AllStrings(n) ==
    IF n.tag = "div"
    THEN Flatten([i \in 1..Len(n.children) |-> LeafStrings(n.children[i])])
    ELSE LeafStrings(n)

\* the text nodes of the whole document
RootStrings(page) == Flatten([i \in 1..Len(page) |-> AllStrings(page[i])])

\* element.get_text(" ", strip=True) over the element's text nodes: each is
\* stripped, the empty ones are dropped, the rest are joined by one space
get_text(strings) ==
    Join(SelectSeq([i \in 1..Len(strings) |-> Strip(strings[i])], LAMBDA x : x # <<>>),
         <<" ">>)

\* the <a> elements of a node with the text nodes of their parent
AnchorsOf(n, rootStrings) ==
    IF n.tag = "a" THEN << [a |-> n, parent |-> rootStrings] >>
    ELSE IF n.tag = "div"
    THEN LET as == SelectSeq(n.children, LAMBDA c : c.tag = "a")
         IN [i \in 1..Len(as) |-> [a |-> as[i], parent |-> AllStrings(n)]]
    ELSE <<>>

\* soup.find_all("a", href=True) (line 64): the <a> elements that carry an
\* href attribute (an empty one included), in document order
find_all_a(page) ==
    LET root == RootStrings(page)
    IN SelectSeq(Flatten([i \in 1..Len(page) |-> AnchorsOf(page[i], root)]),
                 LAMBDA x : x.a.href # NoHref)

(***************************************************************************)
(* find_php_links_on_html (lines 59-90)                                    *)
(***************************************************************************)
MAX_LINKS_PER_SITE == 200

Keyword == <<"p", "h", "p">>

\* line 67: "php" in txt or "php" in href.lower()
OwnMatch(x) ==
    \/ Contains(Lower(get_text(x.a.strings)), Keyword)
    \/ Contains(Lower(x.a.href), Keyword)

\* lines 73-76: the parent element's text contains "php"
\* (a.parent is never None for an element of the tree, and a Tag is truthy)
ParentMatch(x) == Contains(Lower(get_text(x.parent)), Keyword)

\* IsCandidate without the else branch of lines 71-79
IsCandidateOwnOnly(x) == OwnMatch(x)

\* lines 67, 71-76: the anchor is appended to matches
IsCandidate(x) == OwnMatch(x) \/ ParentMatch(x)

\* lines 68-70 and 77-79: the entry appended for a candidate; url is
\* ValueError when urljoin raises
Entry(x, base_url) ==
    LET txt   == get_text(x.a.strings)
        title == IF txt # <<>> THEN txt ELSE x.a.href
    IN [title |-> Unescape(title), url |-> UrlJoin(base_url, x.a.href)]

\* lines 62-79: the list matches when the loop ends
Matches(page, base_url) ==
    LET cands == SelectSeq(find_all_a(page), IsCandidate)
    IN [i \in 1..Len(cands) |-> Entry(cands[i], base_url)]

\* lines 64-79 raise (urljoin's ValueError) at the first candidate whose
\* href does not parse
MatchesRaises(page, base_url) ==
    LET m == Matches(page, base_url)
    IN \E i \in 1..Len(m) : m[i].url = ValueError

\* lines 84-89, one turn of the loop over matches; broke: the loop has
\* left by its break
DedupTurn(st, m) ==
    IF st.broke THEN st
    ELSE [seen    |-> st.seen \cup {<<m.url, m.title>>},
          deduped |-> IF <<m.url, m.title>> \notin st.seen
                      THEN Append(st.deduped, m) ELSE st.deduped,
          broke   |-> Len(IF <<m.url, m.title>> \notin st.seen
                          THEN Append(st.deduped, m) ELSE st.deduped)
                        >= MAX_LINKS_PER_SITE]

RECURSIVE DedupLoop(_, _, _, _)
\* lines 83-89: the turns of the loop for matches[lo..hi], in order, from
\* the state st; no turn follows the break
DedupLoop(matches, lo, hi, st) ==
    IF lo > hi THEN st
    ELSE IF lo = hi THEN DedupTurn(st, matches[lo])
    ELSE LET first == DedupLoop(matches, lo, (lo + hi) \div 2, st)
         IN IF first.broke THEN first
            ELSE DedupLoop(matches, ((lo + hi) \div 2) + 1, hi, first)

\* Dedup keyed on the url alone
DedupByUrl(matches) ==
    LET firsts == { i \in 1..Len(matches) :
                      \A j \in 1..(i - 1) : matches[j].url # matches[i].url }
        kept == SelectSeq([i \in 1..Len(matches) |-> [i |-> i, m |-> matches[i]]],
                          LAMBDA e : e.i \in firsts)
    IN [k \in 1..Min(Len(kept), MAX_LINKS_PER_SITE) |-> kept[k].m]

\* lines 80-90
Dedup(matches) ==
    DedupLoop(matches, 1, Len(matches),
              [seen |-> {}, deduped |-> <<>>, broke |-> FALSE]).deduped

\* the outcome of a call: the list it returns, or that it raised
Returns(l) == [raised |-> FALSE, links |-> l]

Raises == [raised |-> TRUE, links |-> <<>>]

\* find_php_links_on_html(html_text, base_url)
find_php_links_on_html(page, base_url) ==
    IF MatchesRaises(page, base_url) THEN Raises
    ELSE Returns(Dedup(Matches(page, base_url)))

(***************************************************************************)
(* fetch_page and scrape_site (lines 50-99)                                *)
(***************************************************************************)
\* fetch_page returns None: requests.get raised (network error, timeout) or
\* raise_for_status raised (HTTP error status); the except clause catches
\* every Exception
None == [ok |-> FALSE, page |-> <<>>]

\* fetch_page returns resp.text, which parses to page
Html(page) == [ok |-> TRUE, page |-> page]

\* scrape_site(url), given what fetch_page(url) returned: no link when it
\* returned None; nothing catches what find_php_links_on_html raises
scrape_site(resp, url) ==
    IF ~resp.ok THEN Returns(<<>>)
    ELSE find_php_links_on_html(resp.page, url)

(***************************************************************************)
(* JobsApp (lines 102-211)                                                 *)
(***************************************************************************)
\* the scrape threads alive at a time: the thread __init__ starts and a
\* thread started by a click on Refresh; a thread that has ended leaves its
\* place to the next thread started
Threads == {"t1", "t2"}

\* how many times the user may edit the site box
MaxEdits == 1

\* the configured list (lines 26-38), shortened to two of its entries
SITES == << <<"h","t","t","p","s",":","/","/","r","/","p","h","p">>, <<"h","t","t","p","s",":","/","/","w","/","j">> >>

\* what the user may type into the site box, one string per line
SiteTexts == { << <<"j","/","p">> >>,
               << <<" ">>, <<>> >>,
               << <<"/","/","[">> >> }

\* the page texts the network may answer with
PageTwo == << Div(<< Text(<<"P","H","P"," ","j","o","b">>), A(<<"h","t","t","p","s",":","/","/","k","/","7">>, << <<"A","p">> >>) >>), A(<<"/","p","h","p">>, <<>>) >>

PageBad == << A(<<"/","/","[">>, << <<"p","h","p">> >>) >>

\* what fetch_page may return
Responses == << None, Html(PageTwo), Html(PageBad) >>

VARIABLES
    sites_text,   \* self.sites_text: the lines of the site box
    refresh_btn,  \* self.refresh_btn's state: "normal" or "disabled"
    status,       \* self.status, as set by set_status
    tree,         \* self.tree: the rows, in order
    edits,        \* how many times the user edited the site box
    pc,           \* per thread: where scrape_and_display stands
    raw,          \* per thread: the text of the site box as read (line 185)
    sites,        \* per thread: the local sites
    idx,          \* per thread: the local idx
    site,         \* per thread: the local site, once normalised
    links,        \* per thread: the local links
    li,           \* per thread: the position of the loop over links
    total_count,  \* per thread: the local total_count
    hist,         \* per thread: what the run did so far (history)
    x_pc, x_page, x_base, x_matches, x_out  \* one call of find_php_links_on_html

appVars == <<sites_text, refresh_btn, status, tree, edits,
             pc, raw, sites, idx, site, links, li, total_count, hist>>

extractVars == <<x_pc, x_page, x_base, x_matches, x_out>>

vars == <<sites_text, refresh_btn, status, tree, edits,
          pc, raw, sites, idx, site, links, li, total_count, hist,
          x_pc, x_page, x_base, x_matches, x_out>>

HttpsPrefix == <<"h","t","t","p","s",":","/","/">>

\* ReadSiteList without the filter on blank lines
ReadSiteListKeepBlank(text) == [i \in 1..Len(text) |-> Strip(text[i])]

\* raw.strip(), splitlines, line.strip(), the filter on blank lines (185-186)
ReadSiteList(text) ==
    SelectSeq([i \in 1..Len(text) |-> Strip(text[i])], LAMBDA l : l # <<>>)

\* line 197 raises: urlparse(site) raises ValueError
ParseRaises(s) == UrlSplit(s, <<>>).raised

\* NormalizeSite that leaves the site as typed
NormalizeSiteAsTyped(s) == s

\* lines 197-199: the site after "assume https if missing"
NormalizeSite(s) ==
    IF UrlSplit(s, <<>>).scheme = <<>> THEN HttpsPrefix \o s ELSE s

\* the value of self.status
Status(kind, i, n, url) == [kind |-> kind, idx |-> i, total |-> n, url |-> url]

\* an entry of a thread's history; resp is the index in Responses of what
\* fetch_page returned, for a "fetch"
Event(ev, url, resp, n) == [ev |-> ev, url |-> url, resp |-> resp, n |-> n]

\* lines 204-206: the row add_result inserts for a link of site
Row(l, s) == [title |-> IF l.title # <<>> THEN l.title ELSE l.url,
              site |-> s, url |-> l.url]

ExtractIdle ==
    /\ x_pc = "idle" /\ x_page = <<>> /\ x_base = <<>>
    /\ x_matches = <<>> /\ x_out = <<>>

\* where a thread stands when it is not running scrape_and_display
Ended == {"returned", "raised", "finished"}

NotAlive == {"unstarted"} \cup Ended

\* the state when __init__ returns: the site box holds SITES (line 126),
\* the status is "Idle" (111), the table is empty, and the first thread has
\* been started (150)
Init ==
    /\ sites_text = SITES
    /\ refresh_btn = "normal"
    /\ status = Status("Idle", 0, 0, <<>>)
    /\ tree = <<>>
    /\ edits = 0
    /\ pc = [w \in Threads |-> IF w = "t1" THEN "started" ELSE "unstarted"]
    /\ raw = [w \in Threads |-> <<>>]
    /\ sites = [w \in Threads |-> <<>>]
    /\ idx = [w \in Threads |-> 0]
    /\ site = [w \in Threads |-> <<>>]
    /\ links = [w \in Threads |-> <<>>]
    /\ li = [w \in Threads |-> 0]
    /\ total_count = [w \in Threads |-> 0]
    /\ hist = [w \in Threads |-> <<>>]
    /\ ExtractIdle

\* the user edits the site box
EditSites ==
    /\ edits < MaxEdits
    /\ \E t \in SiteTexts : sites_text' = t
    /\ edits' = edits + 1
    /\ UNCHANGED <<refresh_btn, status, tree, pc, raw, sites, idx, site, links, li,
                   total_count, hist>>
    /\ UNCHANGED extractVars

\* lines 179-181, run by a click on Refresh (116): a disabled button takes
\* no click; a new thread is started with fresh locals, nothing else changes
start_scrape_thread ==
    /\ refresh_btn = "normal"
    /\ \E w \in Threads :
         /\ pc[w] \in NotAlive
         /\ w = "t2" => pc["t1"] \notin NotAlive
         /\ pc' = [pc EXCEPT ![w] = "started"]
         /\ raw' = [raw EXCEPT ![w] = <<>>]
         /\ sites' = [sites EXCEPT ![w] = <<>>]
         /\ idx' = [idx EXCEPT ![w] = 0]
         /\ site' = [site EXCEPT ![w] = <<>>]
         /\ links' = [links EXCEPT ![w] = <<>>]
         /\ li' = [li EXCEPT ![w] = 0]
         /\ total_count' = [total_count EXCEPT ![w] = 0]
         /\ hist' = [hist EXCEPT ![w] = <<>>]
    /\ UNCHANGED <<sites_text, refresh_btn, status, tree, edits>>
    /\ UNCHANGED extractVars

\* lines 185-189: read the site box; with no site, warn and return
ReadSites(w) ==
    /\ pc[w] = "started"
    /\ LET ss == ReadSiteList(sites_text)
       IN /\ raw' = [raw EXCEPT ![w] = sites_text]
          /\ sites' = [sites EXCEPT ![w] = ss]
          /\ IF ss = <<>>
             THEN /\ pc' = [pc EXCEPT ![w] = "returned"]
                  /\ hist' = [hist EXCEPT ![w] = Append(@, Event("warning", <<>>, 0, 0))]
             ELSE /\ pc' = [pc EXCEPT ![w] = "begin"]
                  /\ hist' = hist
    /\ UNCHANGED <<sites_text, refresh_btn, status, tree, edits, idx, site, links, li,
                   total_count>>
    /\ UNCHANGED extractVars

\* clear_results (171-173)
clear_results == <<>>

\* lines 191-195: disable the button, set the status, clear the table
BeginRun(w) ==
    /\ pc[w] = "begin"
    /\ refresh_btn' = "disabled"
    /\ status' = Status("Scraping...", 0, 0, <<>>)
    /\ tree' = clear_results
    /\ total_count' = [total_count EXCEPT ![w] = 0]
    /\ idx' = [idx EXCEPT ![w] = 1]
    /\ pc' = [pc EXCEPT ![w] = "site"]
    /\ UNCHANGED <<sites_text, edits, raw, sites, site, links, li, hist>>
    /\ UNCHANGED extractVars

\* lines 196-202, up to the request: normalise the site, report progress,
\* call scrape_site, which sends the request; urlparse may raise
StartSite(w) ==
    /\ pc[w] = "site"
    /\ LET s == sites[w][idx[w]]
       IN IF ParseRaises(s)
          THEN /\ pc' = [pc EXCEPT ![w] = "raised"]
               /\ UNCHANGED <<site, status, hist>>
          ELSE /\ site' = [site EXCEPT ![w] = NormalizeSite(s)]
               /\ status' = Status("progress", idx[w], Len(sites[w]), site'[w])
               /\ hist' = [hist EXCEPT ![w] =
                             Append(@, Event("progress", site'[w], 0, idx[w]))]
               /\ pc' = [pc EXCEPT ![w] = "fetching"]
    /\ UNCHANGED <<sites_text, refresh_btn, tree, edits, raw, sites, idx, links, li,
                   total_count>>
    /\ UNCHANGED extractVars

\* line 202, from the answer on: fetch_page returns resp, scrape_site
\* returns the links or find_php_links_on_html raises
FetchReturns(w) ==
    /\ pc[w] = "fetching"
    /\ \E k \in DOMAIN Responses :
         LET r == scrape_site(Responses[k], site[w])
         IN /\ hist' = [hist EXCEPT ![w] = Append(@, Event("fetch", site[w], k, 0))]
            /\ IF r.raised
               THEN /\ pc' = [pc EXCEPT ![w] = "raised"]
                    /\ UNCHANGED <<links, li>>
               ELSE /\ links' = [links EXCEPT ![w] = r.links]
                    /\ li' = [li EXCEPT ![w] = 1]
                    /\ pc' = [pc EXCEPT ![w] = "adding"]
    /\ UNCHANGED <<sites_text, refresh_btn, status, tree, edits, raw, sites, idx, site,
                   total_count>>
    /\ UNCHANGED extractVars

\* lines 203-207, one turn of the loop: add_result (175-177) and the count
add_result(w) ==
    /\ pc[w] = "adding"
    /\ li[w] <= Len(links[w])
    /\ tree' = Append(tree, Row(links[w][li[w]], site[w]))
    /\ total_count' = [total_count EXCEPT ![w] = @ + 1]
    /\ li' = [li EXCEPT ![w] = @ + 1]
    /\ UNCHANGED <<sites_text, refresh_btn, status, edits, pc, raw, sites, idx, site,
                   links, hist>>
    /\ UNCHANGED extractVars

\* Sleep that skips the delay after the last site
SleepNotAfterLast(w) ==
    /\ pc[w] = "adding"
    /\ li[w] > Len(links[w])
    /\ IF idx[w] < Len(sites[w])
       THEN /\ hist' = [hist EXCEPT ![w] = Append(@, Event("sleep", site[w], 0, 0))]
            /\ idx' = [idx EXCEPT ![w] = @ + 1]
            /\ pc' = [pc EXCEPT ![w] = "site"]
       ELSE /\ hist' = hist
            /\ idx' = idx
            /\ pc' = [pc EXCEPT ![w] = "finishing"]
    /\ UNCHANGED <<sites_text, refresh_btn, status, tree, edits, raw, sites, site,
                   links, li, total_count>>
    /\ UNCHANGED extractVars

\* line 208, and the loop's next turn or its end
Sleep(w) ==
    /\ pc[w] = "adding"
    /\ li[w] > Len(links[w])
    /\ hist' = [hist EXCEPT ![w] = Append(@, Event("sleep", site[w], 0, 0))]
    /\ IF idx[w] < Len(sites[w])
       THEN /\ idx' = [idx EXCEPT ![w] = @ + 1]
            /\ pc' = [pc EXCEPT ![w] = "site"]
       ELSE /\ idx' = idx
            /\ pc' = [pc EXCEPT ![w] = "finishing"]
    /\ UNCHANGED <<sites_text, refresh_btn, status, tree, edits, raw, sites, site,
                   links, li, total_count>>
    /\ UNCHANGED extractVars

\* lines 210-211: report the count, enable the button
Finish(w) ==
    /\ pc[w] = "finishing"
    /\ status' = Status("Done", 0, total_count[w], <<>>)
    /\ refresh_btn' = "normal"
    /\ hist' = [hist EXCEPT ![w] = Append(@, Event("done", <<>>, 0, total_count[w]))]
    /\ pc' = [pc EXCEPT ![w] = "finished"]
    /\ UNCHANGED <<sites_text, tree, edits, raw, sites, idx, site, links, li, total_count>>
    /\ UNCHANGED extractVars

Next ==
    \/ EditSites
    \/ start_scrape_thread
    \/ \E w \in Threads : ReadSites(w)
    \/ \E w \in Threads : BeginRun(w)
    \/ \E w \in Threads : StartSite(w)
    \/ \E w \in Threads : FetchReturns(w)
    \/ \E w \in Threads : add_result(w)
    \/ \E w \in Threads : Sleep(w)
    \/ \E w \in Threads : Finish(w)

Spec == Init /\ [][Next]_vars

(***************************************************************************)
(* One call of find_php_links_on_html, on every page of a bounded set      *)
(***************************************************************************)
\* the longest page built from NodePool
MaxNodes == 2

\* how many anchors more than MAX_LINKS_PER_SITE the long pages hold
BigExtra == 2

NodePool ==
    << A(<<"/","j","/","1">>, << <<"S","r"," ","P","H","P">> >>),
       A(<<"/","j","/","2">>, << <<"D","s","g","n">> >>),
       A(<<"/","x",".","P","H","P">>, << <<"A","p">> >>),
       A(<<"/","j","/","1">>, << <<" ","S","r">>, <<"P","H","P"," ">> >>),
       A(<<"/","j","/","1">>, << <<"J","r"," ","p","h","p">> >>),
       A(<<"/","j","/","5">>, << <<"p","h">>, <<"p">> >>),
       Text(<<"p","h","p">>),
       Div(<< Text(<<"P","H","P">>), A(<<"/","j","/","2">>, << <<"D","s","g","n">> >>) >>),
       Div(<< A(<<"/","j","/","2">>, << <<"D","s","g","n">> >>), A(<<"/","j","/","9">>, << <<"U","x">> >>) >>),
       A(<<>>, <<>>),
       A(<<"/","/","[">>, << <<"p","h","p">> >>),
       A(<<"/","a">>, << <<"R","&","a","m","p",";","D"," ","p","h","p">> >>),
       A(<<"/","a">>, << <<"R","&","D"," ","p","h","p">> >>) >>

SmallPages == UNION { [1..n -> Range(NodePool)] : n \in 0..MaxNodes }

RECURSIVE Digits(_)
\* str(n)
Digits(n) == IF n < 10 THEN <<DigitChars[n + 1]>>
             ELSE Digits(n \div 10) \o <<DigitChars[(n % 10) + 1]>>

\* a listing of n job links: the second repeats the first, and the hrefs
\* repeat with period k
BigPage(n, k) ==
    [i \in 1..n |-> A(<<"/","p","h","p","/">> \o Digits(IF i = 2 THEN 1 ELSE i % k), << <<"A","p">> >>)]

BigPages ==
    { BigPage(n, k) : n \in (MAX_LINKS_PER_SITE - 1)..(MAX_LINKS_PER_SITE + BigExtra),
                      k \in {2, MAX_LINKS_PER_SITE, MAX_LINKS_PER_SITE + BigExtra} }

Pages == SmallPages \cup BigPages

BaseUrls == { <<"h","t","t","p","s",":","/","/","j","/","a","/","b">>, <<"s",":","a">> }

AppIdle ==
    /\ sites_text = SITES
    /\ refresh_btn = "normal"
    /\ status = Status("Idle", 0, 0, <<>>)
    /\ tree = <<>>
    /\ edits = 0
    /\ pc = [w \in Threads |-> "unstarted"]
    /\ raw = [w \in Threads |-> <<>>]
    /\ sites = [w \in Threads |-> <<>>]
    /\ idx = [w \in Threads |-> 0]
    /\ site = [w \in Threads |-> <<>>]
    /\ links = [w \in Threads |-> <<>>]
    /\ li = [w \in Threads |-> 0]
    /\ total_count = [w \in Threads |-> 0]
    /\ hist = [w \in Threads |-> <<>>]

\* find_php_links_on_html(html_text, base_url) has been called
InitExtract ==
    /\ AppIdle
    /\ x_pc = "called"
    /\ x_page \in Pages
    /\ x_base \in BaseUrls
    /\ x_matches = <<>>
    /\ x_out = <<>>

\* lines 61-79: parse, collect matches; urljoin may raise
CollectMatches ==
    /\ x_pc = "called"
    /\ IF MatchesRaises(x_page, x_base)
       THEN /\ x_pc' = "raised"
            /\ x_matches' = x_matches
       ELSE /\ x_pc' = "matched"
            /\ x_matches' = Matches(x_page, x_base)
    /\ UNCHANGED <<x_page, x_base, x_out>>
    /\ UNCHANGED appVars

\* lines 80-90: deduplicate, return
DedupAndReturn ==
    /\ x_pc = "matched"
    /\ x_out' = Dedup(x_matches)
    /\ x_pc' = "returned"
    /\ UNCHANGED <<x_page, x_base, x_matches>>
    /\ UNCHANGED appVars

NextExtract == CollectMatches \/ DedupAndReturn

SpecExtract == InitExtract /\ [][NextExtract]_vars

(***************************************************************************)
(* Properties of find_php_links_on_html, under SpecExtract                 *)
(***************************************************************************)
Key(m) == <<m.url, m.title>>

Keys(ms) == { Key(ms[i]) : i \in 1..Len(ms) }

\* where a pair first occurs in a list that holds it
FirstIndex(ms, k) ==
    CHOOSE i \in 1..Len(ms) : Key(ms[i]) = k /\ \A j \in 1..(i - 1) : Key(ms[j]) # k

\* C6: for every list of matches, the list returned is the first
\* MAX_LINKS_PER_SITE entries of its first-occurrence deduplication on the
\* pair (url, title): as many entries as there are distinct pairs, at most
\* MAX_LINKS_PER_SITE; no pair twice; in the order the pairs first occur;
\* and with no pair left out that first occurs before the last one kept.
C6_DedupFirstOccurrencesTruncated ==
    x_pc = "returned" =>
        /\ Len(x_out) <= MAX_LINKS_PER_SITE
        /\ Len(x_out) = Min(MAX_LINKS_PER_SITE, Cardinality(Keys(x_matches)))
        /\ \A a \in 1..Len(x_out) : \A b \in (a + 1)..Len(x_out) :
               Key(x_out[a]) # Key(x_out[b])
        /\ \A a \in 1..Len(x_out) : \E i \in 1..Len(x_matches) : x_out[a] = x_matches[i]
        /\ \A a \in 1..(Len(x_out) - 1) :
               FirstIndex(x_matches, Key(x_out[a])) < FirstIndex(x_matches, Key(x_out[a + 1]))
        /\ x_out # <<>> =>
               \A i \in 1..FirstIndex(x_matches, Key(x_out[Len(x_out)])) :
                   Key(x_matches[i]) \in Keys(x_out)

\* a call returned a list cut at MAX_LINKS_PER_SITE, from matches that hold
\* more distinct pairs than that and a repeated pair among those kept
C6_Witness ==
    /\ x_pc = "returned"
    /\ Len(x_out) = MAX_LINKS_PER_SITE
    /\ Cardinality(Keys(x_matches)) > MAX_LINKS_PER_SITE
    /\ Key(x_matches[1]) = Key(x_matches[2])

\* the keyword occurs in s, in any case
HasKeyword(s) ==
    \E i \in 1..(Len(s) - 2) :
        LowerChar(s[i]) = "p" /\ LowerChar(s[i + 1]) = "h" /\ LowerChar(s[i + 2]) = "p"

\* the anchor's own text or href holds the keyword
OwnHit(x) == HasKeyword(get_text(x.a.strings)) \/ HasKeyword(x.a.href)

\* the text of the anchor's immediate containing element holds the keyword
ContainerHit(x) == HasKeyword(get_text(x.parent))

\* the anchor's link is in the list returned
InOutput(x) == \E k \in 1..Len(x_out) : x_out[k] = Entry(x, x_base)

Running(w) == pc[w] \in {"begin", "site", "fetching", "adding", "finishing"}

\* the thread has been started and has not ended
Alive(w) == pc[w] \notin NotAlive

\* the entries of a thread's history of the kinds evs, in order
Events(w, evs) == SelectSeq(hist[w], LAMBDA e : e.ev \in evs)

\* a site as the specification normalises it: https:// is prepended to a
\* string that has no scheme, a string with a scheme is left as it is
Normalized(s) == IF SchemeEnd(s) = 0 THEN HttpsPrefix \o s ELSE s

\* the links extracted from what the k-th response holds, for a site
SiteLinks(url, k) == scrape_site(Responses[k], url).links

RECURSIVE SumLinks(_)
\* how many links the fetches of a list of "fetch" entries yield
SumLinks(fs) ==
    IF fs = <<>> THEN 0
    ELSE (IF Responses[Head(fs).resp].ok THEN Len(SiteLinks(Head(fs).url, Head(fs).resp))
          ELSE 0) + SumLinks(Tail(fs))

\* the rows a run's fetches yield: per site in order, per link in order,
\* each tagged with the site
ExpectedRows(w) ==
    LET fs == Events(w, {"fetch"})
    IN Flatten([i \in 1..Len(fs) |->
                  [j \in 1..Len(SiteLinks(fs[i].url, fs[i].resp)) |->
                     Row(SiteLinks(fs[i].url, fs[i].resp)[j], fs[i].url)]])

\* C1: in any run over a non-empty site list every site is fetched exactly
\* once and in list order whatever the earlier fetches gave: the fetches so
\* far are those of the first sites of the list in order, a run that has
\* ended has fetched every site, and the final count is the number of links
\* extracted from the sites whose fetch succeeded (none for a failed fetch).
C1_EverySiteFetchedOnce ==
    \A w \in Threads :
        /\ Len(Events(w, {"fetch"})) <= Len(sites[w])
        /\ \A i \in 1..Len(Events(w, {"fetch"})) :
               Events(w, {"fetch"})[i].url = Normalized(sites[w][i])
        /\ (pc[w] \in Ended /\ sites[w] # <<>>) =>
               Len(Events(w, {"fetch"})) = Len(sites[w])
        /\ pc[w] = "finished" => total_count[w] = SumLinks(Events(w, {"fetch"}))

\* C2: every run started with a non-empty site list completes and reports
\* a final count, whatever happens on each site: a run that has ended has
\* processed every site and reported "Done" with its count.
C2_RunAlwaysReports ==
    \A w \in Threads :
        (pc[w] \in Ended /\ sites[w] # <<>>) =>
            /\ pc[w] = "finished"
            /\ Len(Events(w, {"fetch"})) = Len(sites[w])
            /\ hist[w][Len(hist[w])].ev = "done"

\* the text has no non-blank line
NoSite(text) == \A i \in 1..Len(text) : \A j \in 1..Len(text[i]) : text[i][j] = " "

\* C3: when the site list read at the start of a run has no non-blank
\* line, the run ends with the warning and nothing else: no progress
\* report, no fetch, no extraction, no delay; the table, the status and the
\* button are not touched by it (it never reaches line 191).
C3_EmptyListNoFetch ==
    \A w \in Threads :
        (pc[w] \notin {"unstarted", "started"} /\ NoSite(raw[w])) =>
            /\ pc[w] = "returned"
            /\ hist[w] = << Event("warning", <<>>, 0, 0) >>
            /\ sites[w] = <<>>
            /\ links[w] = <<>>
            /\ total_count[w] = 0

\* a run read a site box that holds only blank lines, and returned
C3_Witness ==
    \E w \in Threads : pc[w] = "returned" /\ raw[w] # <<>> /\ NoSite(raw[w])

\* C4: at every moment at most one fetch is in flight and at most one run
\* is between reading its site list and reporting completion.
C4_SingleRun ==
    /\ Cardinality({ w \in Threads : Running(w) }) <= 1
    /\ Cardinality({ w \in Threads : pc[w] = "fetching" }) <= 1

\* C5: when a run completes, the table holds exactly the rows of that run:
\* per site in processing order, per link in extraction order, each tagged
\* with its site, and nothing else.
C5_TableIsTheRunsRows ==
    [][ \A w \in Threads :
          (pc[w] = "finishing" /\ pc'[w] = "finished") => tree' = ExpectedRows(w) ]_vars

\* C8: each site of the list is used normalised (https:// prepended when
\* it has no scheme, unchanged otherwise): that URL is the one the progress
\* status reports, the one fetched, the base URL of the extraction and the
\* source site of each row added.
C8_NormalizedSiteUsed ==
    [][ \A w \in Threads :
          /\ (pc[w] = "site" /\ pc'[w] = "fetching") =>
                 /\ status' = Status("progress", idx[w], Len(sites[w]),
                                     Normalized(sites[w][idx[w]]))
                 /\ hist'[w][Len(hist'[w])] =
                        Event("progress", Normalized(sites[w][idx[w]]), 0, idx[w])
          /\ (pc[w] = "fetching" /\ pc'[w] # "fetching") =>
                 /\ hist'[w][Len(hist'[w])].ev = "fetch"
                 /\ hist'[w][Len(hist'[w])].url = Normalized(sites[w][idx[w]])
                 /\ pc'[w] = "adding" =>
                        links'[w] = SiteLinks(Normalized(sites[w][idx[w]]),
                                              hist'[w][Len(hist'[w])].resp)
          /\ (pc[w] = "adding" /\ li'[w] = li[w] + 1) =>
                 /\ Len(tree') = Len(tree) + 1
                 /\ tree'[Len(tree')].site = Normalized(sites[w][idx[w]])
      ]_vars

\* a row of a site typed without a scheme is in the table, tagged with the
\* https:// URL, its own URL resolved against it
C8_Witness ==
    \E w \in Threads : \E i \in 1..Len(tree) :
        /\ pc[w] = "adding"
        /\ SchemeEnd(sites[w][idx[w]]) = 0
        /\ tree[i].site = HttpsPrefix \o sites[w][idx[w]]
        /\ MatchAt(tree[i].url, 1, tree[i].site)
        /\ tree[i].url # tree[i].site

\* the fetches, the delays and the completion report of a run, in order
Steps(w) == Events(w, {"fetch", "sleep", "done"})

\* C9: within a run the fetches and the delays alternate, a fetch first, so
\* that one delay follows every site whether its fetch succeeded or failed
\* and exactly one delay lies between two consecutive fetches; completion
\* is reported only after the delay that follows the last site.
C9_DelayAfterEverySite ==
    \A w \in Threads :
        /\ \A i \in 1..Len(Steps(w)) :
               \/ i % 2 = 1 /\ Steps(w)[i].ev = "fetch"
               \/ i % 2 = 0 /\ Steps(w)[i].ev = "sleep"
               \/ /\ Steps(w)[i].ev = "done"
                  /\ i = Len(Steps(w))
                  /\ i = 2 * Len(sites[w]) + 1
        /\ pc[w] \in {"site", "finishing", "finished"} => Len(Steps(w)) % 2 = 0
               \/ Steps(w)[Len(Steps(w))].ev = "done"
        /\ pc[w] = "site" => Len(Steps(w)) = 2 * (idx[w] - 1)
        /\ pc[w] \in {"finishing", "finished"} =>
               Len(Events(w, {"sleep"})) = Len(sites[w])

\* a run of two sites has reported completion after a failed fetch and a
\* successful one, each followed by its delay
C9_Witness ==
    \E w \in Threads :
        /\ pc[w] = "finished"
        /\ Len(Events(w, {"sleep"})) = 2
        /\ ~Responses[Events(w, {"fetch"})[1].resp].ok
        /\ Responses[Events(w, {"fetch"})[2].resp].ok

\* C10: the Refresh button is disabled while a scrape thread that has been
\* started has not ended, and enabled whenever no scrape thread is alive.
C10_ButtonTracksThreads ==
    IF \E w \in Threads : Alive(w)
    THEN refresh_btn = "disabled"
    ELSE refresh_btn = "normal"

====
